---- MODULE Spec2Model ----
(***************************************************************************)
(* Model of eval/perf.py: the performance-evaluation harness that sweeps a *)
(* (difficulty x count) grid, deploys the mining cluster per grid point,   *)
(* samples the chain_length counter before and after a measurement window, *)
(* and writes results.json / results.csv / plot.png.                       *)
(*                                                                         *)
(* Four specifications share this module:                                  *)
(*   Spec          main() and run_experiment(): the sweep, at the level of *)
(*                 its external events (deploy, counter read, stop, file   *)
(*                 writes).  The clock is abstracted: whether a deadline   *)
(*                 has passed is a choice of the environment.              *)
(*   SpecPoller    wait_for_chain_length() with an explicit wall clock.    *)
(*   SpecProgress  print_progress_line(), the padded status line.          *)
(*   SpecRuns      two invocations of main() sharing one --out-dir.        *)
(* Time is counted in units of 0.5 s, the smallest literal of the source.  *)
(***************************************************************************)
EXTENDS Integers, Sequences, FiniteSets, TLC

\* ------------------------------------------------------------------ bounds
MaxLen == 2        \* longest --counts / --difficulties list
MaxPoints == 4     \* largest grid, Len(diffs) * Len(counts)
MaxPool == 2       \* most addresses in minerip.txt
MaxReads == 3      \* counter reads that fit in the deadlines of one grid point
MaxTimeout == 5    \* largest --ready-timeout, in half seconds
MaxPollInterval == 2   \* largest --poll-interval, in half seconds
MaxCalls == 3      \* counter reads of one wait_for_chain_length call
MaxClock == 12     \* the clock stops here, in half seconds
MaxMsg == 4        \* longest progress message, in characters
MaxStart == 4      \* latest start of a run, in half seconds
MaxResults == 2    \* longest ResultCollection handed to the chart renderer
MaxDuration == 2   \* longest measurement window, in seconds
MaxInterval == 3   \* longest progress interval, in half seconds
MaxLate == 1       \* longest oversleep or scheduling delay, in half seconds
MaxLivePoints == 2 \* largest grid of a sweep that is run to its end

\* The time literals of the source, in half seconds.
HalfSecond == 1    \* 0.5 in max(0.5, min(2.0, remaining))
TwoSeconds == 4    \* 2.0 in max(0.5, min(2.0, remaining))
OneSecond == 2     \* 1 in max(1, int(timeout_sec))

Difficulties == {3, 4}          \* sample difficulty values
ChainLens == {5, 6}             \* sample chain_length values the node reports
CountVals == 0..(MaxPool + 1)   \* sample count values, one above the pool

None == [kind |-> "none"]
Value(v) == [kind |-> "value", v |-> v]
Raise(e) == [kind |-> "raise", e |-> e]

Min(a, b) == IF a < b THEN a ELSE b
Max(a, b) == IF a > b THEN a ELSE b

SeqsUpTo(S, n) == UNION {[1..k -> S] : k \in 0..n}

\* ------------------------------------------------- the counter-read client
\* What the external `bin/client blockchain -miner <addr>` call can do:
\* exit non-zero, run into the subprocess timeout, fail to execute, or exit 0
\* with some text on stdout.
Garbage == [json |-> FALSE]
Doc(field, val) == [json |-> TRUE, object |-> TRUE, field |-> field, val |-> val]
Scalar == [json |-> TRUE, object |-> FALSE]
IntVal(v) == [int |-> TRUE, v |-> v]
StrVal == [int |-> FALSE]

Stdouts ==
    {Garbage, Scalar, Doc("height", IntVal(5)), Doc("chain_length", StrVal)}
        \cup {Doc("chain_length", IntVal(v)) : v \in ChainLens}

Responses ==
    {[status |-> s, stdout |-> Garbage] : s \in {"nonzero", "timeout", "oserror"}}
        \cup {[status |-> "ok", stdout |-> o] : o \in Stdouts}

\* A response that carries an integer chain_length.
GoodResponse(r) ==
    /\ r.status = "ok"
    /\ r.stdout.json
    /\ r.stdout.object
    /\ r.stdout.field = "chain_length"
    /\ r.stdout.val.int

\* client_chain_length without the `in` test and with a narrower except: a
\* document without chain_length raises KeyError.
client_chain_length_keyerror(binExists, r) ==
    IF ~binExists THEN Raise("FileNotFoundError:client")
    ELSE IF r.status # "ok" THEN None
    ELSE IF ~r.stdout.json THEN None
    ELSE IF ~r.stdout.object THEN None
    ELSE IF r.stdout.field # "chain_length" THEN Raise("KeyError")
    ELSE IF ~r.stdout.val.int THEN None
    ELSE Value(r.stdout.val.v)

\* client_chain_length: FileNotFoundError when bin/client is missing (raised
\* before the try); otherwise every exception of run_cmd (check=True,
\* timeout), json.loads, the `in` test and int() is caught and gives None.
client_chain_length(binExists, r) ==
    IF ~binExists THEN Raise("FileNotFoundError:client")
    ELSE IF r.status # "ok" THEN None
    ELSE IF ~r.stdout.json THEN None
    ELSE IF ~r.stdout.object THEN None
    ELSE IF r.stdout.field # "chain_length" THEN None
    ELSE IF ~r.stdout.val.int THEN None
    ELSE Value(r.stdout.val.v)

\* ------------------------------------------------------------------- state
VARIABLES
    \* command line and files of one sweep
    counts, diffs, all_ips, ipFile, clientBin, stop_between, progress,
    \* main() and run_experiment()
    pc, di, ci, err, ips, start_len, last_seen, end_len, results,
    deployCalls, stopCalls, pointReads, deployed, pollerReturns, wrote, exit_code,
    stopFailed,
    \* wait_for_chain_length() against the wall clock
    now, p_pc, timeout_sec, poll_interval_sec, deadline, t_begin, tested,
    remaining, per_call_timeout, cmd_timeout, call_start, call_tested,
    calls, fails, last_resp, cur, ret, p_err,
    \* print_progress_line()
    w_pc, last_print_len, msg, padded, prev_len, longest,
    \* two runs of main() on one --out-dir
    started, run_dir, r_pc, fs,
    \* plot_grouped_bars()
    pl_pc, pl_results, pl_counts, pl_diffs, lookup, bars, pl_err,
    \* the measurement window of run_experiment() against the wall clock
    m_pc, m_now, duration_sec, progress_interval_sec, m_t0, m_deadline,
    m_start_len, m_last_seen, m_end_len, m_shown, m_reads, m_start_at, m_end_at,
    m_last_ok, m_last_read, m_polled, m_result, m_err

cfgVars == <<counts, diffs, all_ips, ipFile, clientBin, stop_between, progress>>
sweepVars == <<pc, di, ci, err, ips, start_len, last_seen, end_len, results,
               deployCalls, stopCalls, pointReads, deployed, pollerReturns,
               wrote, exit_code, stopFailed>>
pollerVars == <<now, p_pc, timeout_sec, poll_interval_sec, deadline, t_begin, tested,
                remaining, per_call_timeout, cmd_timeout, call_start, call_tested,
                calls, fails, last_resp, cur, ret, p_err>>
progVars == <<w_pc, last_print_len, msg, padded, prev_len, longest>>
runsVars == <<started, run_dir, r_pc, fs>>
plotVars == <<pl_pc, pl_results, pl_counts, pl_diffs, lookup, bars, pl_err>>
winVars == <<m_pc, m_now, duration_sec, progress_interval_sec, m_t0, m_deadline,
             m_start_len, m_last_seen, m_end_len, m_shown, m_reads, m_start_at,
             m_end_at, m_last_ok, m_last_read, m_polled, m_result, m_err>>
vars == <<cfgVars, sweepVars, pollerVars, progVars, runsVars, plotVars, winVars>>

\* What an action of one specification leaves alone.
notSweep == <<pollerVars, progVars, runsVars, plotVars, winVars>>
notPoller == <<counts, diffs, all_ips, ipFile, stop_between, progress,
               sweepVars, progVars, runsVars, plotVars, winVars>>
notProg == <<cfgVars, sweepVars, pollerVars, runsVars, plotVars, winVars>>
notRuns == <<cfgVars, sweepVars, pollerVars, progVars, plotVars, winVars>>
notPlot == <<cfgVars, sweepVars, pollerVars, progVars, runsVars, winVars>>
notWin == <<cfgVars, sweepVars, pollerVars, progVars, runsVars, plotVars>>

\* ----------------------------------------------------------------- helpers
\* Python's all_ips[:count].
Slice(s, n) ==
    IF n >= 0 THEN SubSeq(s, 1, Min(n, Len(s)))
    ELSE SubSeq(s, 1, Max(Len(s) + n, 0))

\* RunResult with the difference clamped at zero.
RunResultClamped(count, difficulty, used, s, e) ==
    [count |-> count, difficulty |-> difficulty, ips |-> used,
     start_chain_length |-> s, end_chain_length |-> e,
     blocks_mined |-> Max(e - s, 0)]

\* make_stop_miner: one more `make stop_miner`; check=False, so its exit
\* status is dropped and nothing is raised.
make_stop_miner(n) == n + 1

\* Exit statuses of an external command: success and failure.
ExitCodes == {0, 1}

\* subprocess.run(..., check=check): CalledProcessError on a non-zero exit
\* status when check is set.
run_cmd_raises(check, rc) == check /\ rc # 0

\* make_stop_miner run with check=True.
stop_check_true == TRUE

\* The check flag make_stop_miner passes to run_cmd.
stop_check == FALSE

\* RunResult as run_experiment builds it.
RunResult(count, difficulty, used, s, e) ==
    [count |-> count, difficulty |-> difficulty, ips |-> used,
     start_chain_length |-> s, end_chain_length |-> e, blocks_mined |-> e - s]

\* The grid point the two nested for-loops are at.
CurDiff == diffs[di]
CurCount == counts[ci]

\* ------------------------------------------------------------------- Init
\* A component that takes no part in a specification rests in its "off" state.
CfgOff ==
    /\ counts = <<>> /\ diffs = <<>> /\ all_ips = <<>> /\ ipFile = TRUE
    /\ clientBin = TRUE /\ stop_between = FALSE /\ progress = FALSE

PollerOff ==
    /\ now = 0 /\ p_pc = "off" /\ timeout_sec = 0 /\ poll_interval_sec = 0
    /\ deadline = 0 /\ t_begin = 0 /\ tested = 0 /\ remaining = 0
    /\ per_call_timeout = 0 /\ cmd_timeout = 0 /\ call_start = 0 /\ call_tested = 0
    /\ calls = 0 /\ fails = 0 /\ last_resp = None /\ cur = None /\ ret = 0
    /\ p_err = "none"

ProgOff ==
    /\ w_pc = "off" /\ last_print_len = 0 /\ msg = <<>> /\ padded = <<>>
    /\ prev_len = 0 /\ longest = 0

RunsOff ==
    /\ started = <<>> /\ run_dir = <<>> /\ r_pc = <<>> /\ fs = <<>>

PlotOff ==
    /\ pl_pc = "off" /\ pl_results = <<>> /\ pl_counts = <<>> /\ pl_diffs = <<>>
    /\ lookup = <<>> /\ bars = <<>> /\ pl_err = "none"

WindowOff ==
    /\ m_pc = "off" /\ m_now = 0 /\ duration_sec = 0 /\ progress_interval_sec = 0
    /\ m_t0 = 0 /\ m_deadline = 0 /\ m_start_len = 0 /\ m_last_seen = 0
    /\ m_end_len = 0 /\ m_shown = None /\ m_reads = 0 /\ m_start_at = 0
    /\ m_end_at = 0 /\ m_last_ok = None /\ m_last_read = "none" /\ m_polled = <<>>
    /\ m_result = None /\ m_err = "none"

SweepOff ==
    /\ pc = "off" /\ di = 1 /\ ci = 1 /\ err = "none"
    /\ ips = <<>> /\ start_len = 0 /\ last_seen = 0 /\ end_len = 0
    /\ results = <<>> /\ deployCalls = 0 /\ stopCalls = 0 /\ pointReads = 0
    /\ deployed = <<>> /\ pollerReturns = <<>> /\ wrote = {} /\ exit_code = -1
    /\ stopFailed = FALSE

SweepInit ==
    /\ pc = "start" /\ di = 1 /\ ci = 1 /\ err = "none"
    /\ ips = <<>> /\ start_len = 0 /\ last_seen = 0 /\ end_len = 0
    /\ results = <<>> /\ deployCalls = 0 /\ stopCalls = 0 /\ pointReads = 0
    /\ deployed = <<>> /\ pollerReturns = <<>> /\ wrote = {} /\ exit_code = -1
    /\ stopFailed = FALSE

Init ==
    /\ counts \in SeqsUpTo(CountVals, MaxLen)
    /\ diffs \in SeqsUpTo(Difficulties, MaxLen)
    /\ Len(counts) * Len(diffs) <= MaxPoints
    /\ ipFile \in BOOLEAN
    /\ all_ips \in {[i \in 1..n |-> i] : n \in 0..MaxPool}
    /\ (~ipFile => all_ips = <<>>)
    /\ clientBin \in BOOLEAN
    /\ stop_between \in BOOLEAN
    /\ progress \in BOOLEAN
    /\ SweepInit
    /\ PollerOff /\ ProgOff /\ RunsOff /\ PlotOff /\ WindowOff

\* ------------------------------------------------------------------ main()
\* An exception inside the try block: the finally clause runs next.
Fail(e) == /\ err' = e /\ pc' = "finally"

\* read_miner_ips and run_dir.mkdir, before the try block.
ReadIps ==
    /\ pc = "start"
    /\ IF ipFile
       THEN /\ pc' = "loop" /\ UNCHANGED <<err, exit_code>>
       ELSE /\ pc' = "raised" /\ err' = "FileNotFoundError:minerip" /\ exit_code' = 1
    /\ UNCHANGED <<notSweep, cfgVars, stopFailed, di, ci, ips, start_len, last_seen, end_len, results,
                   deployCalls, stopCalls, pointReads, deployed, pollerReturns, wrote>>

\* for diff in diffs: for count in counts: -- enter the next grid point, or
\* leave the loops.
LoopNext ==
    /\ pc = "loop"
    /\ IF di <= Len(diffs) /\ Len(counts) > 0
       THEN pc' = "run"
       ELSE pc' = "finally"
    /\ UNCHANGED <<notSweep, cfgVars, stopFailed, di, ci, err, ips, start_len, last_seen, end_len, results,
                   deployCalls, stopCalls, pointReads, deployed, pollerReturns,
                   wrote, exit_code>>

\* run_experiment without the empty-slice check of pick_observer_ip.
RunCheckNoEmptyCheck ==
    /\ pc = "run"
    /\ pointReads' = 0
    /\ IF CurCount > Len(all_ips)
       THEN /\ Fail("ValueError:count") /\ UNCHANGED ips
       ELSE /\ ips' = Slice(all_ips, CurCount)
            /\ pc' = "deploy" /\ UNCHANGED err
    /\ UNCHANGED <<notSweep, cfgVars, stopFailed, di, ci, start_len, last_seen, end_len, results,
                   deployCalls, stopCalls, deployed, pollerReturns, wrote, exit_code>>

\* run_experiment without the count check of line 155.
RunCheckNoCountCheck ==
    /\ pc = "run"
    /\ pointReads' = 0
    /\ ips' = Slice(all_ips, CurCount)
    /\ IF ips' = <<>>
       THEN Fail("ValueError:no_ips")
       ELSE pc' = "deploy" /\ UNCHANGED err
    /\ UNCHANGED <<notSweep, cfgVars, stopFailed, di, ci, start_len, last_seen, end_len, results,
                   deployCalls, stopCalls, deployed, pollerReturns, wrote, exit_code>>

\* run_experiment, lines 155-160: the count check, the slice, the observer.
RunCheck ==
    /\ pc = "run"
    /\ pointReads' = 0
    /\ IF CurCount > Len(all_ips)
       THEN /\ Fail("ValueError:count") /\ UNCHANGED ips
       ELSE /\ ips' = Slice(all_ips, CurCount)
            /\ IF ips' = <<>>
               THEN Fail("ValueError:no_ips")
               ELSE pc' = "deploy" /\ UNCHANGED err
    /\ UNCHANGED <<notSweep, cfgVars, stopFailed, di, ci, start_len, last_seen, end_len, results,
                   deployCalls, stopCalls, deployed, pollerReturns, wrote, exit_code>>

\* The start sample skipped: the window opens as soon as deploy returns.
DeployNoStartSample ==
    /\ pc = "deploy"
    /\ deployCalls' = deployCalls + 1
    /\ deployed' = <<CurCount, CurDiff>>
    /\ \E rc \in ExitCodes :
          IF run_cmd_raises(TRUE, rc)
          THEN Fail("CalledProcessError:deploy")
          ELSE pc' = "window" /\ UNCHANGED err
    /\ UNCHANGED <<notSweep, cfgVars, stopFailed, di, ci, ips, start_len, last_seen, end_len,
                   results, stopCalls, pointReads, pollerReturns, wrote, exit_code>>

\* make_deploy_miner (check=True), then the warm-up sleep.
Deploy ==
    /\ pc = "deploy"
    /\ deployCalls' = deployCalls + 1
    /\ deployed' = <<CurCount, CurDiff>>
    /\ \E rc \in ExitCodes :
          IF run_cmd_raises(TRUE, rc)
          THEN Fail("CalledProcessError:deploy")
          ELSE pc' = "wait_start" /\ UNCHANGED err
    /\ UNCHANGED <<notSweep, cfgVars, stopFailed, di, ci, ips, start_len, last_seen, end_len, results,
                   stopCalls, pointReads, pollerReturns, wrote, exit_code>>

\* One turn of the loop of wait_for_chain_length: the deadline has passed
\* (TimeoutError), or one counter read that returns a value, raises, or
\* gives None and is followed by the poll-interval sleep.
PollTimeout ==
    /\ pc \in {"wait_start", "wait_end"}
    /\ Fail("TimeoutError")
    /\ UNCHANGED <<notSweep, cfgVars, stopFailed, di, ci, ips, start_len, last_seen, end_len, results,
                   deployCalls, stopCalls, pointReads, deployed, pollerReturns,
                   wrote, exit_code>>

PollRead ==
    /\ pc \in {"wait_start", "wait_end"}
    /\ pointReads < MaxReads
    /\ pointReads' = pointReads + 1
    /\ \E r \in Responses :
         LET got == client_chain_length(clientBin, r) IN
         CASE got.kind = "raise" ->
                /\ Fail(got.e)
                /\ UNCHANGED <<start_len, end_len, pollerReturns>>
           [] got.kind = "none" ->
                UNCHANGED <<pc, err, start_len, end_len, pollerReturns>>
           [] got.kind = "value" ->
                /\ pollerReturns' = Append(pollerReturns, got.v)
                /\ IF pc = "wait_start"
                   THEN /\ start_len' = got.v /\ pc' = "window" /\ UNCHANGED end_len
                   ELSE /\ end_len' = got.v /\ pc' = "append" /\ UNCHANGED start_len
                /\ UNCHANGED err
    /\ UNCHANGED <<notSweep, cfgVars, stopFailed, di, ci, ips, last_seen, results, deployCalls, stopCalls,
                   deployed, wrote, exit_code>>

\* The measurement window: with progress sampling the loop of lines 194-212
\* starts with last_seen = start_len, otherwise one sleep of duration_sec.
Window ==
    /\ pc = "window"
    /\ IF progress
       THEN pc' = "progress" /\ last_seen' = start_len
       ELSE pc' = "wait_end" /\ UNCHANGED last_seen
    /\ UNCHANGED <<notSweep, cfgVars, stopFailed, di, ci, err, ips, start_len, end_len, results,
                   deployCalls, stopCalls, pointReads, deployed, pollerReturns,
                   wrote, exit_code>>

\* One turn of the progress loop: sleep, one best-effort read, status line.
ProgressRead ==
    /\ pc = "progress"
    /\ pointReads < MaxReads
    /\ pointReads' = pointReads + 1
    /\ \E r \in Responses :
         LET got == client_chain_length(clientBin, r) IN
         CASE got.kind = "raise" -> Fail(got.e) /\ UNCHANGED last_seen
           [] got.kind = "none" -> UNCHANGED <<pc, err, last_seen>>
           [] got.kind = "value" -> last_seen' = got.v /\ UNCHANGED <<pc, err>>
    /\ UNCHANGED <<notSweep, cfgVars, stopFailed, di, ci, ips, start_len, end_len, results, deployCalls,
                   stopCalls, deployed, pollerReturns, wrote, exit_code>>

\* remaining <= 0: break out of the progress loop.
ProgressEnd ==
    /\ pc = "progress"
    /\ pc' = "wait_end"
    /\ UNCHANGED <<notSweep, cfgVars, stopFailed, di, ci, err, ips, start_len, last_seen, end_len, results,
                   deployCalls, stopCalls, pointReads, deployed, pollerReturns,
                   wrote, exit_code>>

\* The two loops nested the other way round: outer = count, inner = difficulty.
NextPointSwapped(d, c) ==
    IF d < Len(diffs) THEN <<d + 1, c>>
    ELSE IF c < Len(counts) THEN <<1, c + 1>>
    ELSE <<Len(diffs) + 1, 1>>

\* The for-loop order of main: the inner loop runs over counts.
NextPoint(d, c) ==
    IF c < Len(counts) THEN <<d, c + 1>> ELSE <<d + 1, 1>>

\* run_experiment returns; results.append(res); the optional stop between
\* points; on to the next grid point.
AppendResult ==
    /\ pc = "append"
    /\ results' = Append(results,
                         RunResult(CurCount, CurDiff, ips, start_len, end_len))
    /\ IF stop_between
       THEN \E rc \in ExitCodes :
              /\ stopCalls' = make_stop_miner(stopCalls)
              /\ stopFailed' = (stopFailed \/ rc # 0)
              /\ IF run_cmd_raises(stop_check, rc)
                 THEN Fail("CalledProcessError:stop") /\ UNCHANGED <<di, ci>>
                 ELSE /\ di' = NextPoint(di, ci)[1]
                      /\ ci' = NextPoint(di, ci)[2]
                      /\ pc' = "loop"
                      /\ UNCHANGED err
       ELSE /\ di' = NextPoint(di, ci)[1]
            /\ ci' = NextPoint(di, ci)[2]
            /\ pc' = "loop"
            /\ UNCHANGED <<stopCalls, stopFailed, err>>
    /\ UNCHANGED <<notSweep, cfgVars, ips, start_len, last_seen, end_len, deployCalls,
                   pointReads, deployed, pollerReturns, wrote, exit_code>>

\* The stop placed after the loops instead of in a finally clause: an
\* exception leaves main without it.
FinallySkippedOnError ==
    /\ pc = "finally"
    /\ stopCalls' = IF err = "none" THEN make_stop_miner(stopCalls) ELSE stopCalls
    /\ IF err = "none"
       THEN pc' = "write" /\ UNCHANGED exit_code
       ELSE pc' = "raised" /\ exit_code' = 1
    /\ UNCHANGED <<notSweep, cfgVars, stopFailed, di, ci, err, ips, start_len, last_seen, end_len, results,
                   deployCalls, pointReads, deployed, pollerReturns, wrote>>

\* The exception swallowed after the stop: main goes on to write_outputs with
\* the results collected so far.
FinallyWritesAfterError ==
    /\ pc = "finally"
    /\ \E rc \in ExitCodes :
          /\ stopCalls' = make_stop_miner(stopCalls)
          /\ stopFailed' = (stopFailed \/ rc # 0)
          /\ pc' = "write"
    /\ UNCHANGED <<notSweep, cfgVars, di, ci, err, ips, start_len, last_seen, end_len,
                   results, deployCalls, pointReads, deployed, pollerReturns, wrote,
                   exit_code>>

\* finally: make_stop_miner(); a pending exception then leaves main.
Finally ==
    /\ pc = "finally"
    /\ \E rc \in ExitCodes :
          /\ stopCalls' = make_stop_miner(stopCalls)
          /\ stopFailed' = (stopFailed \/ rc # 0)
          /\ IF run_cmd_raises(stop_check, rc)
             THEN pc' = "raised" /\ err' = "CalledProcessError:stop" /\ exit_code' = 1
             ELSE /\ UNCHANGED err
                  /\ IF err = "none"
                     THEN pc' = "write" /\ UNCHANGED exit_code
                     ELSE pc' = "raised" /\ exit_code' = 1
    /\ UNCHANGED <<notSweep, cfgVars, di, ci, ips, start_len, last_seen, end_len, results,
                   deployCalls, pointReads, deployed, pollerReturns, wrote>>

\* write_outputs: results.json and results.csv into the run directory.
WriteOutputs ==
    /\ pc = "write"
    /\ wrote' = wrote \cup {"results.json", "results.csv"}
    /\ pc' = "plot"
    /\ UNCHANGED <<notSweep, cfgVars, stopFailed, di, ci, err, ips, start_len, last_seen, end_len, results,
                   deployCalls, stopCalls, pointReads, deployed, pollerReturns,
                   exit_code>>

\* plot_grouped_bars: ValueError when counts is empty, else plot.png; return 0.
Plot ==
    /\ pc = "plot"
    /\ IF Len(counts) = 0
       THEN /\ pc' = "raised" /\ err' = "ValueError:no_counts" /\ exit_code' = 1
            /\ UNCHANGED wrote
       ELSE /\ pc' = "done" /\ exit_code' = 0 /\ wrote' = wrote \cup {"plot.png"}
            /\ UNCHANGED err
    /\ UNCHANGED <<notSweep, cfgVars, stopFailed, di, ci, ips, start_len, last_seen, end_len, results,
                   deployCalls, stopCalls, pointReads, deployed, pollerReturns>>

Next ==
    \/ ReadIps
    \/ LoopNext
    \/ RunCheck
    \/ Deploy
    \/ PollTimeout
    \/ PollRead
    \/ Window
    \/ ProgressRead
    \/ ProgressEnd
    \/ AppendResult
    \/ Finally
    \/ WriteOutputs
    \/ Plot

Spec == Init /\ [][Next]_vars

\* ================================================== wait_for_chain_length
\* int() of a non-negative number of seconds: whole seconds, rounded down.
IntSeconds(t) == (t \div OneSecond) * OneSecond

\* run_cmd hands the subprocess int(timeout_sec) without the floor of 1.
run_cmd_timeout_unfloored(t) == IntSeconds(t)

\* run_cmd: the subprocess runs with timeout = max(1, int(timeout_sec)).
run_cmd_timeout(t) == Max(OneSecond, IntSeconds(t))

\* per_call_timeout = max(0.5, min(2.0, remaining))
PerCallTimeout(rem) == Max(HalfSecond, Min(TwoSeconds, rem))

\* A poll loop that sleeps nothing after a failed read.
time_sleep_skipped(t, d) == t

\* time.sleep(d), d >= 0: the clock is at least d later.
time_sleep(t, d) == t + d

\* The loop test with <= for <.
BeforeDeadlineInclusive(t, dl) == t <= dl

\* while time.time() < deadline
BeforeDeadline(t, dl) == t < dl

PollerInit ==
    /\ timeout_sec \in 0..MaxTimeout
    /\ poll_interval_sec \in -1..MaxPollInterval
    /\ now = 0 /\ p_pc = "entry"
    /\ deadline = 0 /\ t_begin = 0 /\ tested = 0 /\ remaining = 0
    /\ per_call_timeout = 0 /\ cmd_timeout = 0 /\ call_start = 0 /\ call_tested = 0
    /\ calls = 0 /\ fails = 0 /\ last_resp = None /\ cur = None /\ ret = 0
    /\ p_err = "none"

InitPoller ==
    /\ counts = <<>> /\ diffs = <<>> /\ all_ips = <<>> /\ ipFile = TRUE
    /\ stop_between = FALSE /\ progress = FALSE
    /\ clientBin \in BOOLEAN
    /\ PollerInit
    /\ SweepOff /\ ProgOff /\ RunsOff /\ PlotOff /\ WindowOff

\* The wall clock moves on while the poller runs, between any two steps.
Tick ==
    /\ p_pc \in {"test", "call", "sleep"}
    /\ now < MaxClock
    /\ now' = now + 1
    /\ UNCHANGED <<p_pc, timeout_sec, poll_interval_sec, deadline, t_begin, tested,
                   remaining, per_call_timeout, cmd_timeout, call_start, call_tested,
                   calls, fails, last_resp, cur, ret, p_err, clientBin, notPoller>>

\* deadline = time.time() + timeout_sec
PEnter ==
    /\ p_pc = "entry"
    /\ deadline' = now + timeout_sec
    /\ t_begin' = now
    /\ p_pc' = "test"
    /\ UNCHANGED <<now, timeout_sec, poll_interval_sec, tested,
                   remaining, per_call_timeout, cmd_timeout, call_start, call_tested,
                   calls, fails, last_resp, cur, ret, p_err, clientBin, notPoller>>

\* The loop test without the raise after the loop: past the deadline the
\* poller keeps testing the clock.
PTestSpins ==
    /\ p_pc = "test"
    /\ tested' = now
    /\ IF BeforeDeadline(now, deadline)
       THEN p_pc' = "call"
       ELSE p_pc' = "test"
    /\ UNCHANGED <<now, timeout_sec, poll_interval_sec, deadline, t_begin,
                   remaining, per_call_timeout, cmd_timeout, call_start, call_tested,
                   calls, fails, last_resp, cur, ret, p_err, clientBin, notPoller>>

\* while time.time() < deadline: ... ; raise TimeoutError
PTest ==
    /\ p_pc = "test"
    /\ tested' = now
    /\ IF BeforeDeadline(now, deadline)
       THEN p_pc' = "call" /\ UNCHANGED p_err
       ELSE p_pc' = "raised" /\ p_err' = "TimeoutError"
    /\ UNCHANGED <<now, timeout_sec, poll_interval_sec, deadline, t_begin,
                   remaining, per_call_timeout, cmd_timeout, call_start, call_tested,
                   calls, fails, last_resp, cur, ret, clientBin, notPoller>>

\* remaining = deadline - time.time(); per_call_timeout; one call of
\* client_chain_length, which takes up to the subprocess timeout (all of it
\* when the subprocess times out); return cur if it is not None.
PCallStep(inc) ==
    /\ p_pc = "call"
    /\ remaining' = deadline - now
    /\ per_call_timeout' = PerCallTimeout(remaining')
    /\ cmd_timeout' = run_cmd_timeout(per_call_timeout')
    /\ call_start' = now
    /\ call_tested' = tested
    /\ calls' = calls + inc
    /\ \E r \in Responses :
         /\ last_resp' = r
         /\ cur' = client_chain_length(clientBin, r)
         /\ \E d \in 0..cmd_timeout' :
              /\ (r.status = "timeout" /\ clientBin) => d = cmd_timeout'
              /\ (~clientBin) => d = 0
              /\ now + d <= MaxClock
              /\ now' = now + d
    /\ CASE cur'.kind = "raise" ->
              p_pc' = "raised" /\ p_err' = cur'.e /\ UNCHANGED <<ret, fails>>
         [] cur'.kind = "value" ->
              p_pc' = "returned" /\ ret' = cur'.v /\ UNCHANGED <<p_err, fails>>
         [] cur'.kind = "none" ->
              p_pc' = "sleep" /\ fails' = fails + inc /\ UNCHANGED <<p_err, ret>>
    /\ UNCHANGED <<timeout_sec, poll_interval_sec, deadline, t_begin, tested,
                   clientBin, notPoller>>

\* A call that is counted.
PCall == calls < MaxCalls /\ PCallStep(1)

\* A call past the MaxCalls-th: the same step, the two counters stay.
PCallUncounted == calls = MaxCalls /\ PCallStep(0)

\* time.sleep(poll_interval_sec): ValueError for a negative interval.
PSleep ==
    /\ p_pc = "sleep"
    /\ IF poll_interval_sec < 0
       THEN /\ p_pc' = "raised" /\ p_err' = "ValueError:sleep" /\ UNCHANGED now
       ELSE /\ time_sleep(now, poll_interval_sec) <= MaxClock
            /\ now' = time_sleep(now, poll_interval_sec)
            /\ p_pc' = "test" /\ UNCHANGED p_err
    /\ UNCHANGED <<timeout_sec, poll_interval_sec, deadline, t_begin, tested,
                   remaining, per_call_timeout, cmd_timeout, call_start, call_tested,
                   calls, fails, last_resp, cur, ret, clientBin, notPoller>>

\* time.sleep(poll_interval_sec) that ends past MaxClock: the clock, which is
\* past every deadline there, stays at MaxClock.
PSleepLate ==
    /\ p_pc = "sleep"
    /\ poll_interval_sec >= 0
    /\ time_sleep(now, poll_interval_sec) > MaxClock
    /\ now' = MaxClock
    /\ p_pc' = "test"
    /\ UNCHANGED <<timeout_sec, poll_interval_sec, deadline, t_begin, tested,
                   remaining, per_call_timeout, cmd_timeout, call_start, call_tested,
                   calls, fails, last_resp, cur, ret, p_err, clientBin, notPoller>>

\* The steps of the poller itself, without the clock.
PollerSteps ==
    \/ PEnter
    \/ PTest
    \/ PCall
    \/ PCallUncounted
    \/ PSleep
    \/ PSleepLate

NextPoller ==
    \/ Tick
    \/ PEnter
    \/ PTest
    \/ PCall
    \/ PSleep

SpecPoller == InitPoller /\ [][NextPoller]_vars

\* ==================================================== print_progress_line
Chars == {"t", " "}
Messages == SeqsUpTo(Chars, MaxMsg)
Spaces(n) == [i \in 1..n |-> " "]

\* The padding one space short.
PadShort(m, last) ==
    IF last > Len(m) THEN m \o Spaces(last - Len(m) - 1) ELSE m

\* padded = msg, or msg + " " * (last_print_len - len(msg)) when the line
\* before was longer.
Pad(m, last) ==
    IF last > Len(m) THEN m \o Spaces(last - Len(m)) ELSE m

InitProgress ==
    /\ w_pc = "closed" /\ last_print_len = 0 /\ msg = <<>> /\ padded = <<>>
    /\ prev_len = 0 /\ longest = 0
    /\ CfgOff /\ SweepOff /\ PollerOff /\ RunsOff /\ PlotOff /\ WindowOff

\* Line 183: a measurement window with progress sampling starts its own line.
OpenWindow ==
    /\ w_pc = "closed"
    /\ w_pc' = "open"
    /\ last_print_len' = 0
    /\ msg' = <<>> /\ padded' = <<>> /\ prev_len' = 0 /\ longest' = 0
    /\ UNCHANGED notProg

\* print_progress_line(m): "\r" + padded is written.
PrintProgressLine ==
    /\ w_pc = "open"
    /\ \E m \in Messages :
         /\ msg' = m
         /\ padded' = Pad(m, last_print_len)
    /\ last_print_len' = Len(padded')
    /\ prev_len' = last_print_len
    /\ longest' = Max(longest, Len(padded'))
    /\ UNCHANGED <<w_pc, notProg>>

\* The newline after the loop.
CloseWindow ==
    /\ w_pc = "open"
    /\ w_pc' = "closed"
    /\ UNCHANGED <<last_print_len, msg, padded, prev_len, longest, notProg>>

NextProgress ==
    \/ OpenWindow
    \/ PrintProgressLine
    \/ CloseWindow

SpecProgress == InitProgress /\ [][NextProgress]_vars

\* ============================================= two runs on one --out-dir
Runs == {1, 2}
Artifacts == {"results.json", "results.csv", "plot.png"}

\* datetime.utcnow().strftime("%Y%m%d_%H%M%S"): the start time to the second.
Timestamp(t) == t \div OneSecond

InitRuns ==
    /\ started \in [Runs -> 0..MaxStart]
    /\ started[1] <= started[2]
    /\ run_dir = [r \in Runs |-> -1]
    /\ r_pc = [r \in Runs |-> "new"]
    /\ fs = [d \in {} |-> 0]
    /\ CfgOff /\ SweepOff /\ PollerOff /\ ProgOff /\ PlotOff /\ WindowOff

\* Lines 379-381: ts, run_dir, run_dir.mkdir(parents=True, exist_ok=True).
\* Run 1 is the earlier run.
StartRun(r) ==
    /\ r_pc[r] = "new"
    /\ r = 2 => r_pc[1] # "new"
    /\ run_dir' = [run_dir EXCEPT ![r] = Timestamp(started[r])]
    /\ fs' = IF run_dir'[r] \in DOMAIN fs THEN fs
             ELSE [d \in DOMAIN fs \cup {run_dir'[r]} |->
                     IF d \in DOMAIN fs THEN fs[d] ELSE [f \in Artifacts |-> 0]]
    /\ r_pc' = [r_pc EXCEPT ![r] = "sweep"]
    /\ UNCHANGED <<started, notRuns>>

\* The grid and the final stop: the run goes on to its outputs, or an error
\* leaves main.
RunSweep(r) ==
    /\ r_pc[r] = "sweep"
    /\ \E next \in {"write", "failed"} : r_pc' = [r_pc EXCEPT ![r] = next]
    /\ UNCHANGED <<started, run_dir, fs, notRuns>>

\* write_outputs: results.json and results.csv are written anew.
RunWrite(r) ==
    /\ r_pc[r] = "write"
    /\ fs' = [fs EXCEPT ![run_dir[r]] =
                [f \in Artifacts |->
                    IF f \in {"results.json", "results.csv"} THEN r ELSE @[f]]]
    /\ r_pc' = [r_pc EXCEPT ![r] = "plot"]
    /\ UNCHANGED <<started, run_dir, notRuns>>

\* plot_grouped_bars: plt.savefig(out_path).
RunPlot(r) ==
    /\ r_pc[r] = "plot"
    /\ fs' = [fs EXCEPT ![run_dir[r]]["plot.png"] = r]
    /\ r_pc' = [r_pc EXCEPT ![r] = "done"]
    /\ UNCHANGED <<started, run_dir, notRuns>>

NextRuns ==
    \/ \E r \in Runs : StartRun(r)
    \/ \E r \in Runs : RunSweep(r)
    \/ \E r \in Runs : RunWrite(r)
    \/ \E r \in Runs : RunPlot(r)

SpecRuns == InitRuns /\ [][NextRuns]_vars

\* ====================================================== plot_grouped_bars
PlotBlocks == {-1, 0, 12}       \* sample blocks_mined values
PlotCounts == {1, 2}            \* sample count values
PlotResults ==
    [difficulty : Difficulties, count : PlotCounts, blocks_mined : PlotBlocks]

\* str(y) for an integer y: its decimal digits, with a sign when negative.
DigitChar == <<"0", "1", "2", "3", "4", "5", "6", "7", "8", "9">>
RECURSIVE NatStr(_)
NatStr(n) ==
    IF n < 10 THEN <<DigitChar[n + 1]>>
    ELSE NatStr(n \div 10) \o <<DigitChar[(n % 10) + 1]>>
IntStr(n) == IF n < 0 THEN <<"-">> \o NatStr(-n) ELSE NatStr(n)

\* for r in results: lookup[(r.difficulty, r.count)] = r.blocks_mined
RECURSIVE BuildLookup(_, _)
BuildLookup(rs, k) ==
    IF k = 0 THEN [p \in {} |-> 0]
    ELSE LET prev == BuildLookup(rs, k - 1)
             key == <<rs[k].difficulty, rs[k].count>>
         IN [p \in DOMAIN prev \cup {key} |->
                IF p = key THEN rs[k].blocks_mined ELSE prev[p]]

\* The same loop with setdefault: the first result of a pair is kept.
RECURSIVE BuildLookupFirst(_, _)
BuildLookupFirst(rs, k) ==
    IF k = 0 THEN [p \in {} |-> 0]
    ELSE LET prev == BuildLookupFirst(rs, k - 1)
             key == <<rs[k].difficulty, rs[k].count>>
         IN [p \in DOMAIN prev \cup {key} |->
                IF p \in DOMAIN prev THEN prev[p] ELSE rs[k].blocks_mined]

LookupFirstWins(rs) == BuildLookupFirst(rs, Len(rs))

\* Lines 286-288: the lookup of the whole collection.
Lookup(rs) == BuildLookup(rs, Len(rs))

\* int(lookup.get((diff, count), 0))
LookupGet(lk, d, c) == IF <<d, c>> \in DOMAIN lk THEN lk[<<d, c>>] ELSE 0

\* One bar and its annotation: plt.bar height y, plt.text(str(y)) at y, or at
\* 0.8 when y is not positive (y_text is kept in tenths).
Bar(i, x, c, d, y) ==
    [group |-> i, x |-> x, count |-> c, difficulty |-> d, height |-> y,
     text |-> IntStr(y), y_text10 |-> IF y > 0 THEN 10 * y ELSE 8]

\* for i, count in enumerate(counts): for diff in difficulties: one bar, in
\* drawing order.
DrawBars(lk, cs, ds) ==
    [k \in 1..(Len(cs) * Len(ds)) |->
        LET i == ((k - 1) \div Len(ds)) + 1
            x == ((k - 1) % Len(ds)) + 1
        IN Bar(i, x, cs[i], ds[x], LookupGet(lk, ds[x], cs[i]))]

InitPlot ==
    /\ pl_results \in SeqsUpTo(PlotResults, MaxResults)
    /\ pl_counts \in SeqsUpTo(PlotCounts, MaxLen)
    /\ pl_diffs \in SeqsUpTo(Difficulties, MaxLen)
    /\ pl_pc = "start" /\ lookup = <<>> /\ bars = <<>> /\ pl_err = "none"
    /\ CfgOff /\ SweepOff /\ PollerOff /\ ProgOff /\ RunsOff /\ WindowOff

\* Lines 285-288.
PlotLookup ==
    /\ pl_pc = "start"
    /\ lookup' = Lookup(pl_results)
    /\ pl_pc' = "lookup"
    /\ UNCHANGED <<pl_results, pl_counts, pl_diffs, bars, pl_err, notPlot>>

\* Lines 291-321: ValueError without counts, else the bars and their texts.
PlotBars ==
    /\ pl_pc = "lookup"
    /\ IF Len(pl_counts) = 0
       THEN /\ pl_pc' = "raised" /\ pl_err' = "ValueError:no_counts"
            /\ UNCHANGED bars
       ELSE /\ bars' = DrawBars(lookup, pl_counts, pl_diffs)
            /\ pl_pc' = "drawn"
            /\ UNCHANGED pl_err
    /\ UNCHANGED <<pl_results, pl_counts, pl_diffs, lookup, notPlot>>

\* Lines 323-334: axes, legend, savefig.
PlotSave ==
    /\ pl_pc = "drawn"
    /\ pl_pc' = "saved"
    /\ UNCHANGED <<pl_results, pl_counts, pl_diffs, lookup, bars, pl_err, notPlot>>

NextPlot ==
    \/ PlotLookup
    \/ PlotBars
    \/ PlotSave

SpecPlot == InitPlot /\ [][NextPlot]_vars

\* ================================= the measurement window of run_experiment
\* Line 182: progress_interval_sec and progress_interval_sec > 0 and
\* duration_sec > 0.
ProgressEnabled(interval, duration) ==
    /\ interval # 0
    /\ interval > 0
    /\ duration > 0

\* The loop left half a second before the deadline.
WindowOverEarly(rem) == rem <= HalfSecond

\* Lines 201-202: if remaining <= 0: break
WindowOver(rem) == rem <= 0

\* A failed read shows the start counter again.
ResetOnFailure(first, prev, got) == IF got.kind = "value" THEN got.v ELSE first

\* Lines 206-208: if cur is not None: last_seen = cur
KeepPrevious(first, prev, got) == IF got.kind = "value" THEN got.v ELSE prev

\* The status line: t=<elapsed>s chain_length=<n> (+<delta>)
StatusLine(elapsed, n, delta) ==
    [elapsed |-> elapsed, chain_length |-> n, delta |-> delta]

InitWindow ==
    /\ duration_sec \in -1..MaxDuration
    /\ progress_interval_sec \in -1..MaxInterval
    /\ m_pc = "start" /\ m_now = 0 /\ m_t0 = 0 /\ m_deadline = 0
    /\ m_start_len = 0 /\ m_last_seen = 0 /\ m_end_len = 0 /\ m_shown = None
    /\ m_reads = 0 /\ m_start_at = 0 /\ m_end_at = 0 /\ m_last_ok = None
    /\ m_last_read = "none" /\ m_polled = <<>> /\ m_result = None /\ m_err = "none"
    /\ CfgOff /\ SweepOff /\ PollerOff /\ ProgOff /\ RunsOff /\ PlotOff

\* Lines 172-177: the start poll returns a counter or raises TimeoutError.
WStartPoll ==
    /\ m_pc = "start"
    /\ \E d \in 0..MaxLate :
          /\ m_now' = m_now + d
          /\ \/ \E v \in ChainLens :
                  /\ m_start_len' = v /\ m_polled' = Append(m_polled, v)
                  /\ m_start_at' = m_now'
                  /\ m_pc' = "branch" /\ UNCHANGED m_err
             \/ /\ m_pc' = "raised" /\ m_err' = "TimeoutError"
                /\ UNCHANGED <<m_start_len, m_polled, m_start_at>>
    /\ UNCHANGED <<duration_sec, progress_interval_sec, m_t0, m_deadline, m_last_seen,
                   m_end_len, m_shown, m_reads, m_end_at, m_last_ok, m_last_read,
                   m_result, notWin>>

\* Lines 182-197 and 216-217: with progress sampling t0, the deadline and the
\* first status line; without it one sleep of duration_sec, which raises
\* ValueError when duration_sec is negative.
WBranch ==
    /\ m_pc = "branch"
    /\ IF ProgressEnabled(progress_interval_sec, duration_sec)
       THEN \E d \in 0..MaxLate :
              /\ m_now' = m_now + d
              /\ m_t0' = m_now'
              /\ m_deadline' = m_now' + duration_sec * OneSecond
              /\ m_last_seen' = m_start_len
              /\ m_shown' = StatusLine(0, m_start_len, 0)
              /\ m_pc' = "loop"
              /\ UNCHANGED m_err
       ELSE IF duration_sec < 0
            THEN /\ m_pc' = "raised" /\ m_err' = "ValueError:sleep"
                 /\ UNCHANGED <<m_now, m_t0, m_deadline, m_last_seen, m_shown>>
            ELSE \E late \in 0..MaxLate :
                   /\ m_now' = time_sleep(m_now, duration_sec * OneSecond) + late
                   /\ m_pc' = "end_poll"
                   /\ UNCHANGED <<m_t0, m_deadline, m_last_seen, m_shown, m_err>>
    /\ UNCHANGED <<duration_sec, progress_interval_sec, m_start_len, m_end_len, m_reads,
                   m_start_at, m_end_at, m_last_ok, m_last_read, m_polled, m_result,
                   notWin>>

\* Lines 199-212, one turn of the loop: leave when nothing remains, else
\* sleep min(interval, remaining), read the counter once with a 2 s timeout
\* and print the status line.
WLoop ==
    /\ m_pc = "loop"
    /\ LET rem == m_deadline - m_now IN
       IF WindowOver(rem)
       THEN /\ m_pc' = "end_poll"
            /\ UNCHANGED <<m_now, m_last_seen, m_shown, m_reads, m_last_ok, m_last_read>>
       ELSE \E late \in 0..MaxLate, r \in Responses,
               lat \in 0..run_cmd_timeout(TwoSeconds) :
              LET slept == time_sleep(m_now, Min(progress_interval_sec, rem)) + late
                  elapsed == (slept - m_t0) \div OneSecond
                  got == client_chain_length(TRUE, r)
              IN /\ m_now' = slept + lat
                 /\ m_reads' = m_reads + 1
                 /\ m_last_seen' = KeepPrevious(m_start_len, m_last_seen, got)
                 /\ m_shown' = StatusLine(elapsed, m_last_seen', m_last_seen' - m_start_len)
                 /\ m_last_ok' = IF GoodResponse(r) THEN Value(r.stdout.val.v) ELSE m_last_ok
                 /\ m_last_read' = IF GoodResponse(r) THEN "ok" ELSE "failed"
                 /\ UNCHANGED m_pc
    /\ UNCHANGED <<duration_sec, progress_interval_sec, m_t0, m_deadline, m_start_len,
                   m_end_len, m_start_at, m_end_at, m_polled, m_result, m_err, notWin>>

\* Lines 219-239: the end poll returns a counter, and the RunResult is built,
\* or it raises TimeoutError.
WEndPoll ==
    /\ m_pc = "end_poll"
    /\ \E d \in 0..MaxLate :
          /\ m_now' = m_now + d
          /\ \/ \E v \in ChainLens :
                  /\ m_end_len' = v /\ m_polled' = Append(m_polled, v)
                  /\ m_end_at' = m_now'
                  /\ m_result' = RunResult(1, 3, <<1>>, m_start_len, m_end_len')
                  /\ m_pc' = "done" /\ UNCHANGED m_err
             \/ /\ m_pc' = "raised" /\ m_err' = "TimeoutError"
                /\ UNCHANGED <<m_end_len, m_polled, m_end_at, m_result>>
    /\ UNCHANGED <<duration_sec, progress_interval_sec, m_t0, m_deadline, m_start_len,
                   m_last_seen, m_shown, m_reads, m_start_at, m_last_ok, m_last_read,
                   notWin>>

NextWindow ==
    \/ WStartPoll
    \/ WBranch
    \/ WLoop
    \/ WEndPoll

SpecWindow == InitWindow /\ [][NextWindow]_vars

\* ============================================================== termination
\* One sweep, one call of wait_for_chain_length or one measurement window,
\* run to its end: wall-clock time advances (Tick), every external command
\* returns and every sleep ends (some step of the running code is taken).
InitLive ==
    \/ Init /\ Len(counts) * Len(diffs) <= MaxLivePoints
    \/ InitPoller
    \/ InitWindow

NextLive ==
    \/ Next
    \/ Tick
    \/ PollerSteps
    \/ NextWindow

SpecLive ==
    /\ InitLive /\ [][NextLive]_vars
    /\ WF_vars(Next)
    /\ WF_vars(Tick)
    /\ WF_vars(PollerSteps)
    /\ WF_vars(NextWindow)

\* ================================================================= claims
\* Errors raised inside run_experiment, i.e. inside the try block of main.
RunnerErrors ==
    {"ValueError:count", "ValueError:no_ips", "CalledProcessError:deploy",
     "TimeoutError", "FileNotFoundError:client"}
FatalRunErrors == {"CalledProcessError:deploy", "TimeoutError"}
InGrid ==
    pc \in {"loop", "run", "deploy", "wait_start", "window", "progress",
            "wait_end", "append"}
AfterCleanup == pc \in {"write", "plot", "done"}

\* The SweepPlan: outer = difficulty, inner = count.
Plan ==
    [k \in 1..(Len(diffs) * Len(counts)) |->
        <<diffs[((k - 1) \div Len(counts)) + 1], counts[((k - 1) % Len(counts)) + 1]>>]
Pairs(rs) == [k \in 1..Len(rs) |-> <<rs[k].difficulty, rs[k].count>>]

\* ---- C1
C1_State ==
    ~stop_between =>
        /\ (InGrid \/ pc = "finally") => stopCalls = 0
        /\ (pc = "raised" /\ err \in RunnerErrors) => stopCalls = 1 /\ exit_code = 1
        /\ AfterCleanup => stopCalls = 1 /\ err = "none"
        /\ err \in RunnerErrors => pc \in {"finally", "raised"}
C1_Step ==
    (~stop_between /\ err \in RunnerErrors) =>
        /\ deployCalls' = deployCalls
        /\ pointReads' = pointReads
        /\ results' = results
        /\ <<di', ci'>> = <<di, ci>>
        /\ err' = err
\* C1: without --stop-between, when run_experiment raises at any grid point
\* stop-cluster is invoked exactly once, after the failure; no further deploy
\* or counter read follows; the error leaves main after that stop. A sweep
\* without failure also invokes the final stop exactly once, after the grid.
C1_TeardownOnce == [](C1_State) /\ [][C1_Step]_vars
C1_Witness ==
    /\ ~stop_between /\ pc = "raised" /\ err \in FatalRunErrors
    /\ Len(results) >= 1 /\ Len(results) < Len(Plan) /\ stopCalls = 1

\* ---- C2
C2_State ==
    /\ Len(results) <= Len(Plan)
    /\ Pairs(results) = SubSeq(Plan, 1, Len(results))
    /\ (AfterCleanup /\ err = "none") => Len(results) = Len(diffs) * Len(counts)
C2_Step ==
    /\ Len(results') >= Len(results)
    /\ SubSeq(results', 1, Len(results)) = results
\* C2: a sweep whose grid points all succeed collects |D|*|C| results in the
\* order outer = difficulty, inner = count; the collection is always a prefix
\* of that order and earlier entries are never changed or removed.
C2_GridOrder == [](C2_State) /\ [][C2_Step]_vars
C2_Witness ==
    /\ pc = "done" /\ Len(diffs) = 2 /\ Len(counts) = 2
    /\ diffs[1] # diffs[2] /\ counts[1] # counts[2]
    /\ Len(results) = 4

\* ---- C6
\* C6: every RunResult has blocks_mined = end_chain_length - start_chain_length,
\* start and end being the values the first and the second poller call of that
\* grid point returned; zero and negative differences are kept as they are.
C6_BlocksMined ==
    \A k \in 1..Len(results) :
        /\ results[k].start_chain_length = pollerReturns[2 * k - 1]
        /\ results[k].end_chain_length = pollerReturns[2 * k]
        /\ results[k].blocks_mined = pollerReturns[2 * k] - pollerReturns[2 * k - 1]
C6_Witness ==
    /\ Len(results) >= 2
    /\ results[1].blocks_mined < 0
    /\ results[2].blocks_mined = 0
    /\ progress /\ last_seen # end_len

\* ---- C7
\* C7 as stated: every configuration error (missing address file, count above
\* the pool, empty counts, empty difficulties) is raised before any deploy,
\* stop-cluster or counter read.
C7_Original ==
    /\ (pc = "finally" /\ err \in {"ValueError:count", "ValueError:no_ips"}) =>
          deployCalls = 0 /\ stopCalls = 0 /\ results = <<>>
    /\ (pc = "raised" /\ err \in {"FileNotFoundError:minerip", "ValueError:no_counts"}) =>
          deployCalls = 0 /\ stopCalls = 0 /\ results = <<>>
    /\ (Len(counts) = 0 \/ Len(diffs) = 0) => stopCalls = 0 /\ pc # "done"
\* C7 amended: a missing address file is raised before any cluster
\* interaction. A count above the pool (or an empty slice) is raised before
\* that grid point's own deploy and counter reads, after the interactions of
\* the grid points before it, and the final stop-cluster follows. An empty
\* counts list is raised by the chart renderer, after the final stop-cluster
\* and the writing of results.json / results.csv, with no deploy or read. An
\* empty difficulties list with counts given raises nothing.
C7_ConfigErrors ==
    /\ err = "FileNotFoundError:minerip" =>
          deployCalls = 0 /\ stopCalls = 0 /\ pointReads = 0 /\ results = <<>>
    /\ (pc = "finally" /\ err \in {"ValueError:count", "ValueError:no_ips"}) =>
          /\ deployCalls = Len(results)
          /\ pointReads = 0
          /\ stopCalls = IF stop_between THEN Len(results) ELSE 0
    /\ deployed # <<>> => deployed[1] <= Len(all_ips)
    /\ err = "ValueError:no_counts" =>
          /\ deployCalls = 0 /\ pointReads = 0 /\ results = <<>>
          /\ stopCalls = 1 /\ wrote = {"results.json", "results.csv"}
    /\ (Len(diffs) = 0 /\ Len(counts) > 0) =>
          err \in {"none", "FileNotFoundError:minerip"} /\ deployCalls = 0
C7_Witness ==
    /\ pc = "finally" /\ err = "ValueError:count"
    /\ deployCalls >= 1 /\ Len(results) >= 1

\* ---- C3
\* C3: when the oracle is unavailable for the first N attempts and then gives
\* v, the poller returns exactly v after N + 1 oracle calls (none follows),
\* and at least N * poll_interval has passed since the call began.
C3_PollerReturnsValue ==
    p_pc = "returned" =>
        /\ GoodResponse(last_resp) /\ ret = last_resp.stdout.val.v
        /\ calls = fails + 1
        /\ now - t_begin >= fails * poll_interval_sec
C3_Witness ==
    /\ p_pc = "returned" /\ fails = 2 /\ poll_interval_sec = 2
    /\ now - t_begin = 4

\* ---- C4
\* C4 as stated: without a value before the deadline the poller raises
\* Timeout, no oracle query is started at or after the deadline, and with
\* timeout_sec = 0 no query is made at all.
C4_Original ==
    /\ (calls > 0 /\ clientBin) => call_start < deadline
    /\ timeout_sec = 0 => calls = 0
    /\ (p_pc = "raised" /\ clientBin /\ poll_interval_sec >= 0) => p_err = "TimeoutError"
\* C4 amended: when every read is unavailable (bin/client present, poll
\* interval not negative) the poller ends only by raising Timeout, and it
\* raises Timeout only when its loop test read a time at or after the
\* deadline. Every oracle query follows a loop test that read a time strictly
\* before the deadline; the query itself may start at or after the deadline,
\* since the clock is read again after the test. With timeout_sec = 0 the
\* poller makes no query.
C4_NoLoopPastDeadline ==
    /\ calls > 0 => call_tested < deadline
    /\ p_pc = "call" => tested < deadline
    /\ timeout_sec = 0 => calls = 0
    /\ (p_pc = "raised" /\ p_err = "TimeoutError") => tested >= deadline
    /\ (p_pc = "raised" /\ clientBin /\ poll_interval_sec >= 0) => p_err = "TimeoutError"
C4_Witness ==
    /\ p_pc = "raised" /\ p_err = "TimeoutError" /\ timeout_sec > 0
    /\ clientBin /\ calls >= 2 /\ call_start >= deadline

\* ---- C5
\* C5 as stated: every oracle call runs with a timeout of at least 0.5 s, at
\* most 2 s, and never larger than the time remaining to the deadline.
C5_Original ==
    calls > 0 =>
        /\ cmd_timeout >= HalfSecond
        /\ cmd_timeout <= TwoSeconds
        /\ cmd_timeout <= remaining
\* C5 amended: every oracle call runs with a timeout of at least 0.5 s and at
\* most 2 s: 2 s when at least 2 s remain and 1 s otherwise (run_cmd rounds
\* down to whole seconds with a floor of 1 s). It never exceeds the larger of
\* 1 s and the remaining time, and it exceeds the remaining time whenever
\* less than 1 s remains.
C5_PerCallTimeout ==
    calls > 0 =>
        /\ cmd_timeout >= HalfSecond
        /\ cmd_timeout <= TwoSeconds
        /\ cmd_timeout <= Max(OneSecond, remaining)
        /\ cmd_timeout = IF remaining >= TwoSeconds THEN TwoSeconds ELSE OneSecond
        /\ remaining < OneSecond => cmd_timeout > remaining
C5_Witness ==
    /\ calls > 0 /\ remaining = HalfSecond /\ per_call_timeout = HalfSecond
    /\ cmd_timeout = OneSecond

C9_ProgressPadding ==
    /\ Len(msg) < prev_len =>
          /\ Len(padded) = prev_len
          /\ SubSeq(padded, 1, Len(msg)) = msg
          /\ \A i \in (Len(msg) + 1)..prev_len : padded[i] = " "
    /\ Len(msg) >= prev_len => padded = msg
    /\ Len(padded) = longest
    /\ last_print_len = Len(padded)
C9_Witness ==
    /\ w_pc = "open" /\ prev_len = 3 /\ msg = <<"t">>
    /\ padded = <<"t", " ", " ">> /\ longest = 3

\* ---- C10
\* C10: two runs on one output directory, whatever their start times, write
\* into distinct run directories, so the later run never overwrites
\* results.json, results.csv or plot.png of the earlier run.
C10_Original ==
    r_pc[1] = "done" => \A f \in Artifacts : fs[run_dir[1]][f] = 1

\* ---- C11
\* The results of the collection that carry the pair (d, c).
WithPair(rs, d, c) ==
    {n \in 1..Len(rs) : rs[n].difficulty = d /\ rs[n].count = c}
LastOf(S) == CHOOSE n \in S : \A o \in S : o <= n
Drawn == pl_pc \in {"drawn", "saved"}
\* C11 as stated: every pair of the grid gets exactly one bar, whose height is
\* the blocks_mined of the RunResult with that pair, or 0 with the text "0"
\* when the collection has none.
C11_Original ==
    Drawn =>
        /\ \A k \in DOMAIN bars :
              /\ \A n \in WithPair(pl_results, bars[k].difficulty, bars[k].count) :
                    bars[k].height = pl_results[n].blocks_mined
              /\ WithPair(pl_results, bars[k].difficulty, bars[k].count) = {} =>
                    bars[k].height = 0 /\ bars[k].text = <<"0">>
        /\ \A k, o \in DOMAIN bars :
              <<bars[k].difficulty, bars[k].count>> = <<bars[o].difficulty, bars[o].count>>
                  => k = o
\* C11 amended: exactly one bar is produced per position of the counts x
\* difficulties grid (a pair that the lists name twice gets a bar for each
\* occurrence); its height is the blocks_mined of the last RunResult of the
\* collection with that pair, or 0 with the text "0" when there is none; the
\* text of a bar is its height in decimal.
C11_BarHeights ==
    Drawn =>
        /\ Len(bars) = Len(pl_counts) * Len(pl_diffs)
        /\ \A i \in 1..Len(pl_counts) : \A x \in 1..Len(pl_diffs) :
              LET b == bars[(i - 1) * Len(pl_diffs) + x]
                  S == WithPair(pl_results, pl_diffs[x], pl_counts[i])
              IN /\ b.count = pl_counts[i] /\ b.difficulty = pl_diffs[x]
                 /\ b.group = i /\ b.x = x
                 /\ S # {} => b.height = pl_results[LastOf(S)].blocks_mined
                 /\ S = {} => b.height = 0 /\ b.text = <<"0">>
                 /\ b.height = 12 => b.text = <<"1", "2">>
                 /\ b.height = -1 => b.text = <<"-", "1">>
C11_Witness ==
    /\ Drawn /\ Len(bars) = 4
    /\ \E k \in DOMAIN bars :
          WithPair(pl_results, bars[k].difficulty, bars[k].count) = {}
    /\ \E k \in DOMAIN bars :
          /\ Cardinality(WithPair(pl_results, bars[k].difficulty, bars[k].count)) = 2
          /\ pl_results[1].blocks_mined # pl_results[2].blocks_mined
          /\ bars[k].height = pl_results[2].blocks_mined

\* ---- C12
Samples == Len(pollerReturns)
\* C12: within a grid point deploy returns before the start counter is
\* obtained, the start counter before the measurement window and its progress
\* reads, the window before the end counter; the deploy of a grid point starts
\* only when every earlier point has its end counter and its RunResult.
C12_PointOrder ==
    /\ pc \in {"loop", "run", "deploy"} =>
          deployCalls = Len(results) /\ Samples = 2 * Len(results)
    /\ pc = "wait_start" =>
          /\ deployCalls = Len(results) + 1 /\ Samples = 2 * Len(results)
          /\ deployed = <<CurCount, CurDiff>>
    /\ pc \in {"window", "progress", "wait_end"} =>
          /\ deployCalls = Len(results) + 1 /\ Samples = 2 * Len(results) + 1
          /\ pollerReturns[Samples] = start_len
    /\ pc = "progress" => progress
    /\ pc = "append" =>
          /\ deployCalls = Len(results) + 1 /\ Samples = 2 * Len(results) + 2
          /\ pollerReturns[Samples - 1] = start_len
          /\ pollerReturns[Samples] = end_len
    /\ deployCalls \in {Len(results), Len(results) + 1}
C12_Witness ==
    /\ pc = "append" /\ Len(results) = 1 /\ progress /\ last_seen # start_len
    /\ deployCalls = 2 /\ Samples = 4

\* ---- C14
C14_State ==
    /\ err # "CalledProcessError:stop"
    /\ stop_between =>
          /\ (InGrid \/ pc = "finally") => stopCalls = Len(results)
          /\ (pc \in {"write", "plot", "done", "raised"}
                /\ err # "FileNotFoundError:minerip") => stopCalls = Len(results) + 1
          /\ AfterCleanup => Pairs(results) = Plan
C14_Step ==
    stopCalls' # stopCalls =>
        /\ stopCalls' = stopCalls + 1
        /\ err' = err
        /\ pc = "append" =>
              /\ results' = Append(results, RunResult(CurCount, CurDiff, ips, start_len, end_len))
              /\ pc' = "loop" /\ <<di', ci'>> = NextPoint(di, ci)
        /\ pc # "append" => pc = "finally" /\ results' = results
\* C14: with --stop-between, stop-cluster is invoked once after every grid
\* point that produced a RunResult, before the next deploy, and once more at
\* the end, so a sweep invokes it (number of RunResults) + 1 times; a stop
\* that exits non-zero raises nothing, the sweep goes on to the next grid
\* point and the collection is what it would be otherwise.
C14_StopBetween == [](C14_State) /\ [][C14_Step]_vars
C14_Witness ==
    /\ stop_between /\ stopFailed /\ pc = "wait_start"
    /\ Len(results) >= 1 /\ stopCalls = Len(results)

\* ---- C15
\* C15: deploy is never invoked with a count above the number of node
\* addresses, nor with count 0: such a grid point raises before its deploy.
C15_DeployWithinPool ==
    /\ deployed # <<>> => deployed[1] <= Len(all_ips) /\ deployed[1] # 0
    /\ pc \in {"deploy", "wait_start", "window", "progress", "wait_end", "append"} =>
          /\ CurCount <= Len(all_ips) /\ CurCount # 0
          /\ ips # <<>> /\ Len(ips) <= Len(all_ips)
    /\ err \in {"ValueError:count", "ValueError:no_ips"} =>
          /\ deployCalls = Len(results)
          /\ CurCount > Len(all_ips) \/ Slice(all_ips, CurCount) = <<>>
C15_Witness ==
    /\ err = "ValueError:count" /\ pc = "raised"
    /\ Len(results) = 1 /\ deployCalls = 1 /\ deployed[1] = Len(all_ips)

\* ---- C18
\* C18: write_outputs and plot_grouped_bars run only after the final stop and
\* only when every grid point produced a RunResult; when a grid point fails,
\* no artifact is written and main does not return 0.
C18_ArtifactsAfterCleanup ==
    /\ (AfterCleanup \/ wrote # {}) =>
          /\ stopCalls = (IF stop_between THEN Len(results) ELSE 0) + 1
          /\ Len(results) = Len(Plan)
          /\ err \notin RunnerErrors
    /\ pc = "done" => err = "none" /\ exit_code = 0
    /\ err \in RunnerErrors => wrote = {} /\ exit_code # 0
    /\ exit_code = 0 => pc = "done" /\ wrote = {"results.json", "results.csv", "plot.png"}
C18_Witness ==
    /\ pc = "raised" /\ err \in FatalRunErrors /\ Len(results) >= 1
    /\ wrote = {} /\ exit_code = 1

\* ---- C13
\* C13: the end counter of a grid point is obtained no earlier than
\* duration_sec after its start counter was obtained, with and without
\* progress sampling, whatever the interval and the outcome and latency of
\* the reads in between.
C13_FullWindow ==
    /\ m_pc = "end_poll" => m_now >= m_start_at + duration_sec * OneSecond
    /\ Len(m_polled) = 2 =>
          /\ m_pc = "done"
          /\ m_end_at >= m_start_at + duration_sec * OneSecond
    /\ (m_pc = "raised" /\ m_err = "ValueError:sleep") => Len(m_polled) = 1
C13_Witness ==
    /\ m_pc = "done" /\ duration_sec = 2 /\ m_reads >= 2 /\ m_last_read = "failed"
    /\ m_end_at = m_start_at + duration_sec * OneSecond

\* ---- C16
\* C16: with progress sampling the status line shows the value of the most
\* recent successful read of the window, or the start counter while none has
\* succeeded, and the difference of that value and the start counter; the
\* RunResult carries the two values the poller returned and their difference;
\* without progress sampling no read is issued inside the window.
C16_StatusLine ==
    /\ m_shown # None =>
          /\ ProgressEnabled(progress_interval_sec, duration_sec)
          /\ m_shown.chain_length =
                (IF m_last_ok = None THEN m_polled[1] ELSE m_last_ok.v)
          /\ m_shown.delta = m_shown.chain_length - m_polled[1]
    /\ m_result # None =>
          /\ m_result.start_chain_length = m_polled[1]
          /\ m_result.end_chain_length = m_polled[2]
          /\ m_result.blocks_mined = m_polled[2] - m_polled[1]
    /\ ~ProgressEnabled(progress_interval_sec, duration_sec) =>
          m_reads = 0 /\ m_shown = None
C16_Witness ==
    /\ m_pc = "done" /\ m_last_read = "failed" /\ m_last_ok # None
    /\ m_last_ok.v # m_polled[1] /\ m_shown.chain_length = m_last_ok.v
    /\ m_shown.delta = 1 /\ m_result.blocks_mined = 0

\* ---- C17
PollerEnded == p_pc \in {"off", "returned", "raised"}
PollerEndedAsStated ==
    p_pc \in {"off", "returned"} \/ (p_pc = "raised" /\ p_err = "TimeoutError")
WindowLeft == m_pc \in {"off", "end_poll", "done", "raised"}
FinalStopDone ==
    \/ pc = "off"
    \/ pc = "raised" /\ err = "FileNotFoundError:minerip"
    \/ pc \in {"write", "plot", "done", "raised"} /\ stopCalls >= 1
\* C17 as stated: every call of wait_for_chain_length eventually returns a
\* value or raises Timeout, every progress loop eventually leaves the window,
\* and every sweep that enters the grid eventually invokes the final stop.
C17_Original == <>(PollerEndedAsStated /\ WindowLeft /\ FinalStopDone)
\* C17 amended: every call of wait_for_chain_length eventually returns a value
\* or raises (Timeout, FileNotFoundError when bin/client is missing, or the
\* ValueError of time.sleep for a negative poll interval); every progress loop
\* eventually leaves the window; every sweep that enters the grid eventually
\* invokes the final stop.
C17_Terminates == <>(PollerEnded /\ WindowLeft /\ FinalStopDone)
C17_Witness ==
    /\ p_pc = "raised" /\ p_err = "TimeoutError" /\ calls = MaxCalls
    /\ fails = MaxCalls /\ now > deadline

====
